---- MODULE Spec2Model ----
(***************************************************************************)
(* bm25md: field-weighted BM25 (BM25F) over markdown fields.               *)
(*                                                                         *)
(* The model covers the tokenizer, the per-field index (fieldBM25), the    *)
(* Corpus (NewCorpus, AddDocument, Score, Search) and the two search       *)
(* strategies, searchSequential and the goroutine/channel structure of     *)
(* searchParallel.                                                         *)
(*                                                                         *)
(* Representation.  A Go string that the program inspects (a field text,   *)
(* a query) is a sequence of one-character strings; a token is a TLA+      *)
(* string.  A float64 is a fixed-point integer counting units of 1/Scale,  *)
(* every float operation rounding to the nearest unit, as float64 rounds   *)
(* to the nearest representable value.  Go slices are 0-based: element i   *)
(* of a slice is element i + 1 of the sequence that models it.             *)
(***************************************************************************)
EXTENDS Integers, Sequences, FiniteSets, TLC

(***************************************************************************)
(* Bounds of the model.                                                    *)
(***************************************************************************)
MaxDocs == 5        \* documents added under Spec
MaxParDocs == 3     \* documents added under SpecPar
MaxLiveDocs == 3    \* documents added under SpecLive
MaxCodeLines == 2   \* content lines of a code block given to ParseDocument
MaxPieces == 3      \* pieces a text given to Tokenize is made of

(***************************************************************************)
(* float64 as fixed point.                                                 *)
(***************************************************************************)
Scale == 1000

Float(n) == n * Scale

\* a * b, rounded; a, b >= 0
FMul(a, b) == (2 * a * b + Scale) \div (2 * Scale)

\* a / b, rounded; a >= 0, b > 0
FDiv(a, b) == (2 * a * Scale + b) \div (2 * b)

\* ln(n) * Scale, rounded, for n = 1 .. 29
LnTable ==
  << 0, 693, 1099, 1386, 1609, 1792, 1946, 2079, 2197, 2303,
     2398, 2485, 2565, 2639, 2708, 2773, 2833, 2890, 2944, 2996,
     3045, 3091, 3135, 3178, 3219, 3258, 3296, 3332, 3367 >>

\* math.Log(p / q) for positive integers p, q
MathLog(p, q) == LnTable[p] - LnTable[q]

RECURSIVE SumOver(_, _)
\* the sum of f[x] over the finite set S
SumOver(f, S) ==
  IF S = {} THEN 0
  ELSE LET x == CHOOSE y \in S : TRUE IN f[x] + SumOver(f, S \ {x})

RECURSIVE SumSeq(_)
SumSeq(s) == IF s = <<>> THEN 0 ELSE Head(s) + SumSeq(Tail(s))

Min(a, b) == IF a < b THEN a ELSE b

(***************************************************************************)
(* Fields and configuration defaults.                                      *)
(***************************************************************************)
FieldH1 == "h1"
FieldH2 == "h2"
FieldH3 == "h3"
FieldH4 == "h4"
FieldH5 == "h5"
FieldH6 == "h6"
FieldBold == "bold"
FieldItalic == "italic"
FieldCode == "code"
FieldBody == "body"

Field ==
  { FieldH1, FieldH2, FieldH3, FieldH4, FieldH5, FieldH6,
    FieldBold, FieldItalic, FieldCode, FieldBody }

DefaultFieldWeights ==
  [ f \in Field |->
      CASE f = FieldH1 -> 5000
        [] f = FieldH2 -> 3000
        [] f = FieldH3 -> 2000
        [] f = FieldH4 -> 2000
        [] f = FieldH5 -> 2000
        [] f = FieldH6 -> 2000
        [] f = FieldBold -> 1500
        [] f = FieldItalic -> 1200
        [] f = FieldCode -> 800
        [] f = FieldBody -> 1000 ]

DefaultBM25Parameters == [K1 |-> 1200, B |-> 750]

\* the empty Go map (a nil map reads the same)
EmptyMap == [x \in {} |-> 0]

\* m[k] of a Go map whose missing keys read as zero
MapGet(m, k, zero) == IF k \in DOMAIN m THEN m[k] ELSE zero

(***************************************************************************)
(* DefaultTokenizer.Tokenize                                               *)
(***************************************************************************)
UpperChars ==
  << "A", "B", "C", "D", "E", "F", "G", "H", "I", "J", "K", "L", "M",
     "N", "O", "P", "Q", "R", "S", "T", "U", "V", "W", "X", "Y", "Z" >>
LowerChars ==
  << "a", "b", "c", "d", "e", "f", "g", "h", "i", "j", "k", "l", "m",
     "n", "o", "p", "q", "r", "s", "t", "u", "v", "w", "x", "y", "z" >>
DigitChars == {"0", "1", "2", "3", "4", "5", "6", "7", "8", "9"}
SpaceChars == {" ", "\t", "\n", "\r"}

Range(s) == {s[i] : i \in DOMAIN s}

\* the lower-case letter of each upper-case letter
LowerOf ==
  [ ch \in Range(UpperChars) |->
      LowerChars[CHOOSE k \in DOMAIN UpperChars : UpperChars[k] = ch] ]

\* strings.ToLower
ToLower(text) ==
  [ i \in DOMAIN text |->
      IF text[i] \in DOMAIN LowerOf THEN LowerOf[text[i]] ELSE text[i] ]

\* the characters that tokenRegex, [^a-zA-Z0-9_-]+, does not match
TokenChars == Range(LowerChars) \cup Range(UpperChars) \cup DigitChars \cup {"_", "-"}

TokenChar(ch) == ch \in TokenChars

RECURSIVE RegexSplit(_, _, _)
\* tokenRegex.Split(text, -1): the pieces of text between the maximal runs of
\* separator characters, an empty piece before a leading and after a trailing
\* run included.  cur is the piece being read, inSep whether the previous
\* character was a separator.
RegexSplit(text, cur, inSep) ==
  IF text = <<>> THEN <<cur>>
  ELSE IF TokenChar(Head(text))
       THEN RegexSplit(Tail(text), Append(cur, Head(text)), FALSE)
       ELSE IF inSep THEN RegexSplit(Tail(text), cur, TRUE)
            ELSE <<cur>> \o RegexSplit(Tail(text), <<>>, TRUE)

RECURSIVE TrimLeft(_)
TrimLeft(s) ==
  IF s # <<>> /\ Head(s) \in SpaceChars THEN TrimLeft(Tail(s)) ELSE s

RECURSIVE TrimRight(_)
TrimRight(s) ==
  IF s # <<>> /\ s[Len(s)] \in SpaceChars
  THEN TrimRight(SubSeq(s, 1, Len(s) - 1)) ELSE s

\* strings.TrimSpace
TrimSpace(s) == TrimRight(TrimLeft(s))

RECURSIVE JoinChars(_)
\* the characters of s as one string
JoinChars(s) == IF s = <<>> THEN "" ELSE Head(s) \o JoinChars(Tail(s))

MinTokenLen == 3

RECURSIVE FilterTokens(_)
\* the loop of Tokenize: trim each piece, keep those of length >= 3
FilterTokens(pieces) ==
  IF pieces = <<>> THEN <<>>
  ELSE LET token == TrimSpace(Head(pieces))
           rest == FilterTokens(Tail(pieces))
       IN IF Len(token) >= MinTokenLen THEN <<JoinChars(token)>> \o rest ELSE rest

\* mutant: the text is split as it is, not in lower case
Tokenize_noLower(text) ==
  IF text = <<>> THEN <<>>
  ELSE FilterTokens(RegexSplit(text, <<>>, FALSE))

Tokenize(text) ==
  IF text = <<>> THEN <<>>
  ELSE FilterTokens(RegexSplit(ToLower(text), <<>>, FALSE))

(***************************************************************************)
(* fieldBM25: the index of one field.                                      *)
(***************************************************************************)
newFieldBM25(field, weight, params) ==
  [ field |-> field,
    weight |-> weight,
    params |-> params,
    termFrequencies |-> <<>>,
    docFrequencies |-> EmptyMap,
    docLengths |-> <<>>,
    avgDocLength |-> 0,
    totalDocs |-> 0 ]

\* tf of addDocument: the number of occurrences of each token
CountTokens(tokens) ==
  [ t \in Range(tokens) |-> Cardinality({i \in DOMAIN tokens : tokens[i] = t}) ]

\* mutant: docFrequencies grows by one for each occurrence of a token
BumpDocFrequencies_perOccurrence(df, tokens) ==
  [ t \in DOMAIN df \cup Range(tokens) |->
      MapGet(df, t, 0) + Cardinality({i \in DOMAIN tokens : tokens[i] = t}) ]

\* the docFrequencies update of addDocument: one more for each distinct token
BumpDocFrequencies(df, tokens) ==
  [ t \in DOMAIN df \cup Range(tokens) |->
      IF t \in Range(tokens) THEN MapGet(df, t, 0) + 1 ELSE df[t] ]

\* mutant: the mean is taken over the lengths recorded before this document
addDocument_staleMean(f, tokens) ==
  LET total == f.totalDocs + 1
  IN [ f EXCEPT
         !.termFrequencies = Append(@, CountTokens(tokens)),
         !.docFrequencies = BumpDocFrequencies(@, tokens),
         !.docLengths = Append(@, Len(tokens)),
         !.totalDocs = total,
         !.avgDocLength = FDiv(Float(SumSeq(f.docLengths)), Float(total)) ]

\* mutant: the term counts and the length of the new document are put first
addDocument_prepend(f, tokens) ==
  LET lengths == <<Len(tokens)>> \o f.docLengths
      total == f.totalDocs + 1
  IN [ f EXCEPT
         !.termFrequencies = <<CountTokens(tokens)>> \o @,
         !.docFrequencies = BumpDocFrequencies(@, tokens),
         !.docLengths = lengths,
         !.totalDocs = total,
         !.avgDocLength = FDiv(Float(SumSeq(lengths)), Float(total)) ]

addDocument(f, tokens) ==
  LET lengths == Append(f.docLengths, Len(tokens))
      total == f.totalDocs + 1
  IN [ f EXCEPT
         !.termFrequencies = Append(@, CountTokens(tokens)),
         !.docFrequencies = BumpDocFrequencies(@, tokens),
         !.docLengths = lengths,
         !.totalDocs = total,
         !.avgDocLength =
             IF total > 0 THEN FDiv(Float(SumSeq(lengths)), Float(total)) ELSE @ ]

(***************************************************************************)
(* Corpus.  A corpus value is the record of the fields of the Go struct.   *)
(***************************************************************************)
\* functional options, applied in order by NewCorpus
WithTokenizer(tokenizer) == [opt |-> "WithTokenizer", arg |-> tokenizer]
WithFieldWeights(fieldWeights) == [opt |-> "WithFieldWeights", arg |-> fieldWeights]
WithBM25Params(params) == [opt |-> "WithBM25Params", arg |-> params]
WithFieldParams(fieldParams) == [opt |-> "WithFieldParams", arg |-> fieldParams]

ApplyOption(c, o) ==
  CASE o.opt = "WithTokenizer" -> [c EXCEPT !.tokenizer = o.arg]
    [] o.opt = "WithFieldWeights" -> [c EXCEPT !.fieldWeights = o.arg]
    [] o.opt = "WithBM25Params" -> [c EXCEPT !.params = o.arg]
    [] o.opt = "WithFieldParams" -> [c EXCEPT !.fieldParams = o.arg]

RECURSIVE ApplyOptions(_, _)
ApplyOptions(c, opts) ==
  IF opts = <<>> THEN c
  ELSE ApplyOptions(ApplyOption(c, Head(opts)), Tail(opts))

buildFieldScorers(c) ==
  [ c EXCEPT !.fieldScorers =
      [ field \in DOMAIN c.fieldWeights |->
          newFieldBM25(field, c.fieldWeights[field],
                       MapGet(c.fieldParams, field, c.params)) ] ]

NewCorpus(opts) ==
  buildFieldScorers(
    ApplyOptions(
      [ documents |-> <<>>,
        fieldScorers |-> EmptyMap,
        fieldWeights |-> DefaultFieldWeights,
        params |-> DefaultBM25Parameters,
        tokenizer |-> "DefaultTokenizer",
        fieldParams |-> EmptyMap ],
      opts))

\* c.tokenizer.Tokenize(text); DefaultTokenizer is the tokenizer modelled
TokenizeWith(c, text) == Tokenize(text)

\* mutant: only the fields the document has are indexed
AddDocument_presentFieldsOnly(c, doc) ==
  LET stored == [doc EXCEPT !.ID = Len(c.documents)]
  IN [ c EXCEPT
         !.documents = Append(@, stored),
         !.fieldScorers =
             [ field \in DOMAIN @ |->
                 IF field \in DOMAIN doc.Fields
                 THEN addDocument(@[field], TokenizeWith(c, doc.Fields[field]))
                 ELSE @[field] ] ]

\* mutant: the document is stored with the ID the caller gave it
AddDocument_keepsCallerID(c, doc) ==
  [ c EXCEPT
      !.documents = Append(@, doc),
      !.fieldScorers =
          [ field \in DOMAIN @ |->
              addDocument(@[field],
                          TokenizeWith(c, MapGet(doc.Fields, field, <<>>))) ] ]

AddDocument(c, doc) ==
  LET stored == [doc EXCEPT !.ID = Len(c.documents)]
  IN [ c EXCEPT
         !.documents = Append(@, stored),
         !.fieldScorers =
             [ field \in DOMAIN @ |->
                 addDocument(@[field],
                             TokenizeWith(c, MapGet(doc.Fields, field, <<>>))) ] ]

(***************************************************************************)
(* Corpus.Score: the BM25F combination.                                    *)
(***************************************************************************)
\* mutant: the document frequencies of the fields added up, a document
\* counting once for each field that holds the term
combinedDocFreq_perField(c, term) ==
  SumOver([field \in DOMAIN c.fieldScorers |->
             MapGet(c.fieldScorers[field].docFrequencies, term, 0)],
          DOMAIN c.fieldScorers)

\* docFreq of scoreWithTokens: the documents in which some field counts term
combinedDocFreq(c, term) ==
  Cardinality(
    { i \in 0 .. Len(c.documents) - 1 :
        \E field \in DOMAIN c.fieldScorers :
          LET scorer == c.fieldScorers[field]
          IN /\ i < Len(scorer.termFrequencies)
             /\ MapGet(scorer.termFrequencies[i + 1], term, 0) > 0 })

\* mutant: the idf that is positive for every term, log(1 + (N - df + 0.5) /
\* (df + 0.5))
rawIdf_plusOne(totalDocs, docFreq) == MathLog(2 * totalDocs + 2, 2 * docFreq + 1)

\* log((N - df + 0.5) / (df + 0.5)), numerator and denominator doubled
rawIdf(totalDocs, docFreq) ==
  MathLog(2 * (totalDocs - docFreq) + 1, 2 * docFreq + 1)

\* mutant: the clamp of negative values left out
idfOf_noClamp(totalDocs, docFreq) == rawIdf(totalDocs, docFreq)

\* idf of scoreWithTokens, with the clamp of negative values
idfOf(totalDocs, docFreq) ==
  LET idf == rawIdf(totalDocs, docFreq) IN IF idf < 0 THEN 0 ELSE idf

\* mutant: the term frequencies of the fields added up without their weights
weightedTFOf_unweighted(c, term, docIndex) ==
  SumOver([field \in DOMAIN c.fieldScorers |->
             Float(MapGet(c.fieldScorers[field].termFrequencies[docIndex + 1], term, 0))],
          DOMAIN c.fieldScorers)

\* mutant: the weights read from DefaultFieldWeights, not from the corpus
weightedTFOf_defaultWeights(c, term, docIndex) ==
  SumOver([field \in DOMAIN c.fieldScorers |->
             DefaultFieldWeights[field]
               * MapGet(c.fieldScorers[field].termFrequencies[docIndex + 1], term, 0)],
          DOMAIN c.fieldScorers)

\* weightedTF of scoreWithTokens
weightedTFOf(c, term, docIndex) ==
  LET part ==
        [ field \in DOMAIN c.fieldScorers |->
            LET scorer == c.fieldScorers[field]
            IN IF docIndex < Len(scorer.termFrequencies)
               THEN LET tf == MapGet(scorer.termFrequencies[docIndex + 1], term, 0)
                    IN IF tf > 0 THEN c.fieldWeights[field] * tf ELSE 0
               ELSE 0 ]
  IN SumOver(part, DOMAIN c.fieldScorers)

\* k1 of the combined normalization
CombinedK1 == 1200

\* mutant: the corpus parameter K1 used in place of the constant
normTFOf_corpusK1(c, weightedTF) ==
  LET k1 == c.params.K1
  IN FDiv(FMul(weightedTF, k1 + Float(1)), weightedTF + k1)

\* normTF of scoreWithTokens
normTFOf(c, weightedTF) ==
  LET k1 == CombinedK1
  IN FDiv(FMul(weightedTF, k1 + Float(1)), weightedTF + k1)

\* the body of the loop over queryTerms: what one term adds to totalScore
termScoreOf(c, term, docIndex) ==
  LET docFreq == combinedDocFreq(c, term)
  IN IF docFreq = 0 THEN 0
     ELSE LET idf == idfOf(Len(c.documents), docFreq)
              weightedTF == weightedTFOf(c, term, docIndex)
          IN IF weightedTF > 0 THEN FMul(idf, normTFOf(c, weightedTF)) ELSE 0

\* mutant: each distinct term of the query scored once
totalScoreOf_distinct(c, terms, docIndex) ==
  SumOver([t \in Range(terms) |-> termScoreOf(c, t, docIndex)], Range(terms))

\* the loop over queryTerms
RECURSIVE totalScoreOf(_, _, _)
totalScoreOf(c, queryTerms, docIndex) ==
  IF queryTerms = <<>> THEN 0
  ELSE termScoreOf(c, Head(queryTerms), docIndex)
         + totalScoreOf(c, Tail(queryTerms), docIndex)

\* mutant: the check docIndex < 0 left out; the read of
\* termFrequencies[docIndex] then aborts the call, shown as the result -1
scoreWithTokens_noLowerCheck(c, terms, docIndex) ==
  IF docIndex >= Len(c.documents) THEN 0
  ELSE IF docIndex < 0 THEN -1
  ELSE totalScoreOf(c, terms, docIndex)

scoreWithTokens(c, queryTerms, docIndex) ==
  IF docIndex < 0 \/ docIndex >= Len(c.documents) THEN 0
  ELSE IF Len(queryTerms) = 0 THEN 0
  ELSE totalScoreOf(c, queryTerms, docIndex)

Score(c, query, docIndex) ==
  scoreWithTokens(c, TokenizeWith(c, query), docIndex)

(***************************************************************************)
(* Search: the sequential strategy.                                        *)
(***************************************************************************)
\* mutant: Index counts the documents from 1
SearchResult_fromOne(c, docIndex, score) ==
  [Document |-> c.documents[docIndex + 1], Score |-> score, Index |-> docIndex + 1]

SearchResult(c, docIndex, score) ==
  [Document |-> c.documents[docIndex + 1], Score |-> score, Index |-> docIndex]

RECURSIVE scoreAllFrom(_, _, _)
\* the scoring loop of searchSequential from document i on
scoreAllFrom(c, queryTerms, i) ==
  IF i >= Len(c.documents) THEN <<>>
  ELSE LET score == scoreWithTokens(c, queryTerms, i)
       IN (IF score > 0 THEN <<SearchResult(c, i, score)>> ELSE <<>>)
            \o scoreAllFrom(c, queryTerms, i + 1)

RECURSIVE SortOrders(_, _)
\* the orders of the positions P of results in which no score is followed by
\* a greater one
SortOrders(results, P) ==
  IF P = {} THEN {<<>>}
  ELSE UNION { { <<i>> \o rest : rest \in SortOrders(results, P \ {i}) } :
               i \in {x \in P : \A y \in P : results[x].Score >= results[y].Score} }

\* mutant: the slice left as it is
sortSlice_unsorted(results) == {results}

\* sort.Slice(results, Score descending).  The sort is not stable: every
\* order of the elements of equal score is a possible outcome.
sortSlice(results) ==
  { [k \in DOMAIN order |-> results[order[k]]] :
      order \in SortOrders(results, DOMAIN results) }

\* mutant: results[limit:] in place of results[:limit]
applyLimit_tail(results, lim) ==
  IF lim > 0 /\ Len(results) > lim
  THEN SubSeq(results, lim + 1, Len(results)) ELSE results

\* results[:limit] when limit > 0 and there are more
applyLimit(results, limit) ==
  IF limit > 0 /\ Len(results) > limit THEN SubSeq(results, 1, limit) ELSE results

\* the possible return values of searchSequential
searchSequential(c, queryTerms, limit) ==
  { applyLimit(sorted, limit) : sorted \in sortSlice(scoreAllFrom(c, queryTerms, 0)) }

\* the corpus size from which Search runs searchParallel
ParallelThreshold == 100

(***************************************************************************)
(* MarkdownFieldParser.  ParseDocument walks the tree that goldmark's       *)
(* parser returns for the text.  A node is a record of its kind, its        *)
(* heading or emphasis level, the value of its segment (Text, String), its  *)
(* content lines (code blocks; a line holds its line end) and its children. *)
(***************************************************************************)
Node(kind, level, value, lines, children) ==
  [kind |-> kind, level |-> level, value |-> value, lines |-> lines,
   children |-> children]

\* the characters of a string
Chars(str) == [i \in 1 .. Len(str) |-> SubSeq(str, i, i)]

RECURSIVE Concat(_)
\* the texts of a sequence written one after the other
Concat(texts) == IF texts = <<>> THEN <<>> ELSE Head(texts) \o Concat(Tail(texts))

RECURSIVE Join(_, _)
\* strings.Join
Join(texts, sep) ==
  IF texts = <<>> THEN <<>>
  ELSE IF Len(texts) = 1 THEN texts[1]
  ELSE texts[1] \o sep \o Join(Tail(texts), sep)

RECURSIVE SplitLines(_, _)
\* strings.Split(text, "\n"); cur is the line being read
SplitLines(text, cur) ==
  IF text = <<>> THEN <<cur>>
  ELSE IF Head(text) = "\n" THEN <<cur>> \o SplitLines(Tail(text), <<>>)
  ELSE SplitLines(Tail(text), Append(cur, Head(text)))

getHeaderField(level) ==
  CASE level = 1 -> FieldH1
    [] level = 2 -> FieldH2
    [] level = 3 -> FieldH3
    [] level = 4 -> FieldH4
    [] level = 5 -> FieldH5
    [] level = 6 -> FieldH6
    [] OTHER -> FieldH6

RECURSIVE extractTextRecursive(_, _)
\* what extractTextRecursive writes to the buffer; hasNext says whether
\* node.NextSibling() != nil
extractTextRecursive(node, hasNext) ==
  LET own ==
        IF node.kind \in {"Text", "String"} THEN node.value
        ELSE Concat([k \in DOMAIN node.children |->
                       extractTextRecursive(node.children[k],
                                            k < Len(node.children))])
  IN own \o (IF hasNext THEN <<" ">> ELSE <<>>)

extractTextFromChildren(node) ==
  TrimSpace(Concat([k \in DOMAIN node.children |->
                      extractTextRecursive(node.children[k],
                                           k < Len(node.children))]))

\* the first line of a code block is taken for a language identifier when it
\* is shorter than this
LangTagLen == 12

\* mutant: the first line is dropped from a block of one line too
extractCodeBlockText_dropsOnlyLine(node, hasNext) ==
  LET buf == IF node.kind = "FencedCodeBlock" THEN Concat(node.lines)
             ELSE extractTextRecursive(node, hasNext)
      result == TrimSpace(buf)
      lines == SplitLines(result, <<>>)
      firstLine == TrimSpace(lines[1])
  IN TrimSpace(
       IF Len(firstLine) < LangTagLen /\ " " \notin Range(firstLine)
       THEN Join(Tail(lines), <<"\n">>)
       ELSE result)

extractCodeBlockText(node, hasNext) ==
  LET buf == IF node.kind = "FencedCodeBlock" THEN Concat(node.lines)
             ELSE extractTextRecursive(node, hasNext)
      result == TrimSpace(buf)
      lines == SplitLines(result, <<>>)
      firstLine == TrimSpace(lines[1])
  IN TrimSpace(
       IF Len(firstLine) < LangTagLen /\ " " \notin Range(firstLine) /\ Len(lines) > 1
       THEN Join(Tail(lines), <<"\n">>)
       ELSE result)

\* the kinds isInsideSpecialElement looks for among the ancestors
SpecialKinds == {"Heading", "CodeSpan", "FencedCodeBlock", "CodeBlock", "Emphasis"}

isInsideSpecialElement(ancestors) == \E k \in DOMAIN ancestors : ancestors[k] \in SpecialKinds

\* one text collected for a field, or none for the empty text
Collected(field, text) ==
  IF text # <<>> THEN << [field |-> field, text |-> text] >> ELSE <<>>

RECURSIVE walk_descendsIntoEmphasis(_, _, _)
\* mutant: the walk goes on into the children of an emphasis node
walk_descendsIntoEmphasis(node, ancestors, hasNext) ==
  LET descend ==
        Concat([k \in DOMAIN node.children |->
                  walk_descendsIntoEmphasis(node.children[k],
                                            Append(ancestors, node.kind),
                                            k < Len(node.children))])
  IN CASE node.kind = "Heading" ->
            Collected(getHeaderField(node.level), extractTextFromChildren(node))
       [] node.kind = "CodeSpan" ->
            Collected(FieldCode, extractTextFromChildren(node))
       [] node.kind \in {"FencedCodeBlock", "CodeBlock"} ->
            Collected(FieldCode, extractCodeBlockText(node, hasNext))
       [] node.kind = "Text" ->
            IF isInsideSpecialElement(ancestors) THEN <<>>
            ELSE Collected(FieldBody, TrimSpace(node.value))
       [] node.kind = "Emphasis" ->
            LET text == extractTextFromChildren(node)
            IN (IF node.level = 2 THEN Collected(FieldBold, text)
                ELSE IF node.level = 1 THEN Collected(FieldItalic, text)
                ELSE <<>>) \o descend
       [] OTHER -> descend

RECURSIVE walk(_, _, _)
\* ast.Walk with the function ParseDocument passes to it: the texts appended to
\* fieldTexts, in the order of the walk.  ancestors are the kinds of the
\* parents of node, hasNext whether it has a next sibling.
walk(node, ancestors, hasNext) ==
  CASE node.kind = "Heading" ->
         Collected(getHeaderField(node.level), extractTextFromChildren(node))
    [] node.kind = "CodeSpan" ->
         Collected(FieldCode, extractTextFromChildren(node))
    [] node.kind \in {"FencedCodeBlock", "CodeBlock"} ->
         Collected(FieldCode, extractCodeBlockText(node, hasNext))
    [] node.kind = "Text" ->
         IF isInsideSpecialElement(ancestors) THEN <<>>
         ELSE Collected(FieldBody, TrimSpace(node.value))
    [] node.kind = "Emphasis" ->
         LET text == extractTextFromChildren(node)
         IN IF node.level = 2 THEN Collected(FieldBold, text)
            ELSE IF node.level = 1 THEN Collected(FieldItalic, text)
            ELSE <<>>
    [] OTHER ->
         Concat([k \in DOMAIN node.children |->
                   walk(node.children[k], Append(ancestors, node.kind),
                        k < Len(node.children))])

\* the texts collected for one field
TextsOf(collected, field) ==
  LET S == SelectSeq(collected, LAMBDA c : c.field = field)
  IN [k \in DOMAIN S |-> S[k].text]

\* mutant: the result has a key only for the fields that collected a text
ParseDocument_collectedOnly(content, doc, walkErr) ==
  IF walkErr THEN (FieldBody :> content)
  ELSE LET collected == walk(doc, <<>>, FALSE)
       IN [ field \in {collected[k].field : k \in DOMAIN collected} |->
              Join(TextsOf(collected, field), <<" ">>) ]

\* ParseDocument(content), doc the tree of content and walkErr whether ast.Walk
\* returns an error
ParseDocument(content, doc, walkErr) ==
  LET fields == [field \in DOMAIN DefaultFieldWeights |-> <<>>]
      collected == walk(doc, <<>>, FALSE)
  IN IF walkErr THEN [fields EXCEPT ![FieldBody] = content]
     ELSE [ field \in DOMAIN fields |->
              IF TextsOf(collected, field) # <<>>
              THEN Join(TextsOf(collected, field), <<" ">>)
              ELSE fields[field] ]

(***************************************************************************)
(* Inputs.                                                                 *)
(***************************************************************************)
TextCat == <<"C", "a", "t">>
TextLowerCat == <<"c", "a", "t">>
TextDog == <<"d", "o", "g">>
TextDogDog == <<"D", "o", "g", ",", " ", "d", "o", "g">>
TextToBe == <<"t", "o", " ", "b", "e">>
TextTo == <<"t", "o">>
TextCatDog == <<"c", "a", "t", " ", "d", "o", "g">>
TextCatCat == <<"C", "a", "t", ",", " ", "c", "a", "t">>

DocX == [ID |-> 0, Fields |-> (FieldH1 :> TextCat), Original |-> "# Cat"]
DocY == [ID |-> 0, Fields |-> (FieldBody :> TextLowerCat), Original |-> "cat"]
DocZ ==
  [ ID |-> 0,
    Fields |-> (FieldH1 :> TextDog) @@ (FieldBody :> TextDogDog),
    Original |-> "# dog\nDog, dog" ]
DocV == [ID |-> 0, Fields |-> (FieldBody :> TextDog), Original |-> "dog"]
DocW == [ID |-> 0, Fields |-> (FieldBody :> TextToBe), Original |-> "to be"]

\* the documents given to AddDocument under Spec, SpecPar and SpecLive
DocInputs == {DocX, DocY, DocZ}
ParDocInputs == {DocX, DocY, DocV, DocW}
LiveDocInputs == {DocX, DocW}

\* the IDs a caller leaves in the Document it passes to AddDocument
CallerIDs == {0, 7}

\* the queries given to Score under Spec and to Search under SpecPar
QueryInputs == {TextTo, TextLowerCat, TextDog, TextCatDog, TextCatCat}
ParQueryInputs == {TextTo, TextLowerCat, TextCatDog}
LiveQueryInputs == {TextCatDog}

\* the limits given to Search and to searchParallel
LimitInputs == {-1, 0, 1}
ParLimitInputs == {0, 1}
LiveLimitInputs == {1}

\* the values of runtime.NumCPU() explored
CPUInputs == {1, 2}

\* the option lists given to NewCorpus
ReadmeWeights == (FieldH1 :> 10000) @@ (FieldCode :> 2000) @@ (FieldBody :> 1000)
ReadmeParams == [K1 |-> 1500, B |-> 500]
ReadmeFieldParams ==
  (FieldH1 :> [K1 |-> 800, B |-> 900]) @@ (FieldBody :> [K1 |-> 1500, B |-> 750])
    @@ (FieldCode :> [K1 |-> 1200, B |-> 500])

OptionInputs ==
  { <<>>,
    << WithFieldWeights(ReadmeWeights), WithBM25Params(ReadmeParams),
       WithFieldParams(ReadmeFieldParams) >> }
ParOptionInputs == { <<>> }

\* the trees given to ParseDocument, each with the text it is the tree of
TextNode(value) == Node("Text", 0, value, <<>>, <<>>)
Paragraph(children) == Node("Paragraph", 0, <<>>, <<>>, children)
Heading(level, children) == Node("Heading", level, <<>>, <<>>, children)
Emphasis(level, children) == Node("Emphasis", level, <<>>, <<>>, children)
CodeSpan(children) == Node("CodeSpan", 0, <<>>, <<>>, children)
DocumentNode(children) == Node("Document", 0, <<>>, <<>>, children)

\* the lines of a code block as its Lines() hold them, each with its line end
WithLineEnds(ls) == [k \in DOMAIN ls |-> ls[k] \o <<"\n">>]

\* a fenced block keeps its info string apart from its content lines; an
\* indented block has content lines and, like the fenced one, no child node
FencedCodeBlock(info, ls) == Node("FencedCodeBlock", 0, info, WithLineEnds(ls), <<>>)
CodeBlock(ls) == Node("CodeBlock", 0, <<>>, WithLineEnds(ls), <<>>)

\* the content lines code blocks are made of
LineInputs ==
  { Chars("go"), Chars("x = 1"), Chars("fmt.Println()"), Chars("go "), <<>> }

RECURSIVE LineSeqs(_)
\* the sequences of at most n lines
LineSeqs(n) ==
  IF n = 0 THEN {<<>>}
  ELSE LET shorter == LineSeqs(n - 1)
       IN shorter \cup
            { Append(ls, l) : ls \in {x \in shorter : Len(x) = n - 1}, l \in LineInputs }

IsBlank(line) == TrimSpace(line) = <<>>

FencedLineInputs == LineSeqs(MaxCodeLines)

\* an indented code block begins and ends with a line that is not blank
IndentedLineInputs ==
  { ls \in LineSeqs(MaxCodeLines) :
      ls # <<>> /\ ~IsBlank(ls[1]) /\ ~IsBlank(ls[Len(ls)]) }

FencedSource(ls) == Chars("~~~go\n") \o Concat(WithLineEnds(ls)) \o Chars("~~~\n")
IndentedSource(ls) ==
  Concat([k \in DOMAIN ls |-> Chars("    ") \o ls[k] \o <<"\n">>])

RichSource == Chars("# Cat\n\ndog **big _red_** end\n\n### \n")
RichDocument ==
  DocumentNode(
    << Heading(1, <<TextNode(Chars("Cat"))>>),
       Paragraph(
         << TextNode(Chars("dog ")),
            Emphasis(2, << TextNode(Chars("big ")),
                           Emphasis(1, <<TextNode(Chars("red"))>>) >>),
            TextNode(Chars(" end")) >>),
       Heading(3, <<>>) >>)

\* the grave accent that delimits a code span
Grave == SubSeq("`'", 1, 1)

\* emphasis inside a heading, italic and a code span inside bold, and a code
\* span in a paragraph
NestedSource ==
  Chars("# Top *ital*\n\nplain **bold _deep_ ") \o <<Grave>> \o Chars("code")
    \o <<Grave>> \o Chars("** tail ") \o <<Grave>> \o Chars("span") \o <<Grave>>
    \o Chars("\n")
NestedDocument ==
  DocumentNode(
    << Heading(1, << TextNode(Chars("Top ")),
                     Emphasis(1, <<TextNode(Chars("ital"))>>) >>),
       Paragraph(
         << TextNode(Chars("plain ")),
            Emphasis(2, << TextNode(Chars("bold ")),
                           Emphasis(1, <<TextNode(Chars("deep"))>>),
                           TextNode(Chars(" ")),
                           CodeSpan(<<TextNode(Chars("code"))>>) >>),
            TextNode(Chars(" tail ")),
            CodeSpan(<<TextNode(Chars("span"))>>) >>) >>)

ParseInputs ==
  { [content |-> FencedSource(ls), doc |-> DocumentNode(<<FencedCodeBlock(Chars("go"), ls)>>)] :
      ls \in FencedLineInputs }
  \cup
  { [content |-> IndentedSource(ls), doc |-> DocumentNode(<<CodeBlock(ls)>>)] :
      ls \in IndentedLineInputs }
  \cup
  { [ content |-> IndentedSource(ls) \o Chars("\ncat\n"),
      doc |-> DocumentNode(<<CodeBlock(ls), Paragraph(<<TextNode(Chars("cat"))>>)>>) ] :
      ls \in IndentedLineInputs }
  \cup
  { [content |-> RichSource, doc |-> RichDocument],
    [content |-> NestedSource, doc |-> NestedDocument],
    [content |-> <<>>, doc |-> DocumentNode(<<>>)] }

\* whether ast.Walk returns an error
WalkErrInputs == {FALSE, TRUE}

\* the texts given to Tokenize: up to MaxPieces of these pieces in a row
PieceInputs ==
  { Chars("ab"), Chars("Cat"), Chars("d-1"), Chars("_X9"), Chars(" "), Chars(",\t"),
    Chars(".") }

RECURSIVE PieceTexts(_)
PieceTexts(n) ==
  IF n = 0 THEN {<<>>}
  ELSE LET shorter == PieceTexts(n - 1)
       IN shorter \cup {t \o piece : t \in shorter, piece \in PieceInputs}

TokenizeInputs == PieceTexts(MaxPieces)

(***************************************************************************)
(* State.                                                                  *)
(***************************************************************************)
VARIABLES
  documents, fieldScorers, fieldWeights, params, tokenizer, fieldParams,
      \* the fields of the Corpus
  lastOp,     \* the call in progress or just returned: arguments and result
  pc,         \* searchParallel: where the calling goroutine is
  queryTerms, limit, numWorkers,   \* searchParallel: arguments and locals
  docChan, docChanClosed,          \* the work channel
  resultsChan, resultsChanClosed,  \* the result channel
  nextDoc,    \* distributor goroutine: the next index to send
  worker,     \* worker goroutines: [pc, docIndex] of each
  wg,         \* the WaitGroup counter
  results     \* the slice the calling goroutine collects into

corpusVars == <<documents, fieldScorers, fieldWeights, params, tokenizer, fieldParams>>
parVars ==
  << pc, queryTerms, limit, numWorkers, docChan, docChanClosed, resultsChan,
     resultsChanClosed, nextDoc, worker, wg, results >>
vars == <<corpusVars, lastOp, parVars>>

\* the corpus as one value
Corpus ==
  [ documents |-> documents,
    fieldScorers |-> fieldScorers,
    fieldWeights |-> fieldWeights,
    params |-> params,
    tokenizer |-> tokenizer,
    fieldParams |-> fieldParams ]

SetCorpus(c) ==
  /\ documents' = c.documents
  /\ fieldScorers' = c.fieldScorers
  /\ fieldWeights' = c.fieldWeights
  /\ params' = c.params
  /\ tokenizer' = c.tokenizer
  /\ fieldParams' = c.fieldParams

\* no call in progress
NoCall ==
  [ op |-> "none", query |-> <<>>, queryTerms |-> <<>>, docIndex |-> 0,
    limit |-> 0, score |-> 0, results |-> <<>>, returned |-> TRUE,
    numCPU |-> 0, handed |-> <<>>, scored |-> <<>> ]

\* a searchParallel call in progress: besides the arguments, the value
\* runtime.NumCPU() returned and, for the document index i, how many times
\* i was received from docChan (handed[i + 1]) and how many times it was
\* scored (scored[i + 1])
ParallelCall(call, cpus) ==
  [ call EXCEPT !.returned = FALSE,
                !.numCPU = cpus,
                !.handed = [i \in 1 .. Len(documents) |-> 0],
                !.scored = [i \in 1 .. Len(documents) |-> 0] ]

\* the searchParallel variables outside a searchParallel call
ParReset ==
  /\ pc' = "idle"
  /\ queryTerms' = <<>>
  /\ limit' = 0
  /\ numWorkers' = 0
  /\ docChan' = <<>>
  /\ docChanClosed' = FALSE
  /\ resultsChan' = <<>>
  /\ resultsChanClosed' = FALSE
  /\ nextDoc' = 0
  /\ worker' = <<>>
  /\ wg' = 0
  /\ results' = <<>>

InitWith(optionInputs) ==
  /\ \E opts \in optionInputs :
       LET c == NewCorpus(opts)
       IN /\ documents = c.documents
          /\ fieldScorers = c.fieldScorers
          /\ fieldWeights = c.fieldWeights
          /\ params = c.params
          /\ tokenizer = c.tokenizer
          /\ fieldParams = c.fieldParams
  /\ lastOp = NoCall
  /\ pc = "idle"
  /\ queryTerms = <<>>
  /\ limit = 0
  /\ numWorkers = 0
  /\ docChan = <<>>
  /\ docChanClosed = FALSE
  /\ resultsChan = <<>>
  /\ resultsChanClosed = FALSE
  /\ nextDoc = 0
  /\ worker = <<>>
  /\ wg = 0
  /\ results = <<>>

(***************************************************************************)
(* Actions: the calls on the corpus.  The caller makes one call at a time  *)
(* (indexing during a search is excluded by the package's contract).       *)
(***************************************************************************)
AddDocumentCall(inputs, max) ==
  /\ lastOp = NoCall
  /\ Len(documents) < max
  /\ \E doc \in inputs, id \in CallerIDs :
       SetCorpus(AddDocument(Corpus, [doc EXCEPT !.ID = id]))
  /\ lastOp' = [NoCall EXCEPT !.op = "AddDocument"]
  /\ UNCHANGED parVars

ScoreCall ==
  /\ lastOp = NoCall
  /\ \E query \in QueryInputs, docIndex \in -1 .. Len(documents) :
       lastOp' = [ NoCall EXCEPT
                     !.op = "Score",
                     !.query = query,
                     !.docIndex = docIndex,
                     !.score = Score(Corpus, query, docIndex) ]
  /\ UNCHANGED <<corpusVars, parVars>>

\* searchParallel up to the collection loop: numWorkers is set, the channels
\* are made and the workers, the distributor and the goroutine that waits for
\* the workers are started
StartParallel(terms, lim, cpus) ==
  LET n == Min(cpus, Len(documents))
  IN /\ pc' = "collect"
     /\ queryTerms' = terms
     /\ limit' = lim
     /\ numWorkers' = n
     /\ docChan' = <<>>
     /\ docChanClosed' = FALSE
     /\ resultsChan' = <<>>
     /\ resultsChanClosed' = FALSE
     /\ nextDoc' = 0
     /\ worker' = [w \in 1 .. n |-> [pc |-> "receive", docIndex |-> 0]]
     /\ wg' = n
     /\ results' = <<>>

SearchCall ==
  /\ lastOp = NoCall
  /\ \E query \in ParQueryInputs, lim \in LimitInputs :
       LET terms == TokenizeWith(Corpus, query)
           call == [NoCall EXCEPT !.op = "Search", !.query = query,
                                  !.queryTerms = terms, !.limit = lim]
       IN IF Len(terms) = 0
          THEN lastOp' = call /\ UNCHANGED parVars
          ELSE IF Len(documents) < ParallelThreshold
          THEN /\ \E out \in searchSequential(Corpus, terms, lim) :
                    lastOp' = [call EXCEPT !.results = out]
               /\ UNCHANGED parVars
          ELSE \E cpus \in CPUInputs :
                 /\ lastOp' = ParallelCall(call, cpus)
                 /\ StartParallel(terms, lim, cpus)
  /\ UNCHANGED corpusVars

\* searchParallel called on the corpus as it is
SearchParallelCall(queries, limits) ==
  /\ lastOp = NoCall
  /\ \E query \in queries, lim \in limits, cpus \in CPUInputs :
       LET terms == TokenizeWith(Corpus, query)
           call == [NoCall EXCEPT !.op = "searchParallel", !.query = query,
                                  !.queryTerms = terms, !.limit = lim]
       IN /\ Len(terms) > 0
          /\ lastOp' = ParallelCall(call, cpus)
          /\ StartParallel(terms, lim, cpus)
  /\ UNCHANGED corpusVars

(***************************************************************************)
(* Actions: the goroutines of searchParallel.                              *)
(***************************************************************************)
\* distributor: docChan <- i; the send blocks while the channel, made with
\* room for len(documents), is full
DistributorSend ==
  /\ pc # "idle"
  /\ ~docChanClosed
  /\ nextDoc < Len(documents)
  /\ Len(docChan) < Len(documents)
  /\ docChan' = Append(docChan, nextDoc)
  /\ nextDoc' = nextDoc + 1
  /\ UNCHANGED << corpusVars, lastOp, pc, queryTerms, limit, numWorkers, docChanClosed,
                  resultsChan, resultsChanClosed, worker, wg, results >>

\* distributor: the loop is over, the deferred close(docChan) runs
DistributorClose ==
  /\ pc # "idle"
  /\ ~docChanClosed
  /\ nextDoc = Len(documents)
  /\ docChanClosed' = TRUE
  /\ UNCHANGED << corpusVars, lastOp, pc, queryTerms, limit, numWorkers, docChan,
                  resultsChan, resultsChanClosed, nextDoc, worker, wg, results >>

\* mutant: the receive leaves the index in the channel
WorkerReceive_noDequeue(w) ==
  /\ worker[w].pc = "receive"
  /\ docChan # <<>>
  /\ worker' = [worker EXCEPT ![w] = [pc |-> "score", docIndex |-> Head(docChan)]]
  /\ lastOp' = [lastOp EXCEPT !.handed[Head(docChan) + 1] = @ + 1]
  /\ UNCHANGED << corpusVars, pc, queryTerms, limit, numWorkers, docChan, docChanClosed,
                  resultsChan, resultsChanClosed, nextDoc, wg, results >>

\* worker w: docIndex := <-docChan
WorkerReceive(w) ==
  /\ worker[w].pc = "receive"
  /\ docChan # <<>>
  /\ worker' = [worker EXCEPT ![w] = [pc |-> "score", docIndex |-> Head(docChan)]]
  /\ docChan' = Tail(docChan)
  /\ lastOp' = [lastOp EXCEPT !.handed[Head(docChan) + 1] = @ + 1]
  /\ UNCHANGED << corpusVars, pc, queryTerms, limit, numWorkers, docChanClosed,
                  resultsChan, resultsChanClosed, nextDoc, wg, results >>

\* mutant: looking a query term up in docFrequencies inserts the zero entry
WorkerScore_insertsOnLookup(w) ==
  /\ worker[w].pc = "score"
  /\ LET docIndex == worker[w].docIndex
         score == scoreWithTokens(Corpus, queryTerms, docIndex)
     IN resultsChan' =
          IF score > 0
          THEN Append(resultsChan, SearchResult(Corpus, docIndex, score))
          ELSE resultsChan
  /\ worker' = [worker EXCEPT ![w].pc = "receive"]
  /\ fieldScorers' =
       [ field \in DOMAIN fieldScorers |->
           [ fieldScorers[field] EXCEPT
               !.docFrequencies =
                  [ t \in DOMAIN @ \cup Range(queryTerms) |-> MapGet(@, t, 0) ] ] ]
  /\ lastOp' = [lastOp EXCEPT !.scored[worker[w].docIndex + 1] = @ + 1]
  /\ UNCHANGED << documents, fieldWeights, params, tokenizer, fieldParams, pc,
                  queryTerms, limit, numWorkers, docChan, docChanClosed,
                  resultsChanClosed, nextDoc, wg, results >>

\* worker w: scoreWithTokens and, for a positive score, resultsChan <- result;
\* the send blocks while the channel, made with room for len(documents), is
\* full
WorkerScore(w) ==
  /\ worker[w].pc = "score"
  /\ scoreWithTokens(Corpus, queryTerms, worker[w].docIndex) > 0
       => Len(resultsChan) < Len(documents)
  /\ LET docIndex == worker[w].docIndex
         score == scoreWithTokens(Corpus, queryTerms, docIndex)
     IN resultsChan' =
          IF score > 0
          THEN Append(resultsChan, SearchResult(Corpus, docIndex, score))
          ELSE resultsChan
  /\ worker' = [worker EXCEPT ![w].pc = "receive"]
  /\ lastOp' = [lastOp EXCEPT !.scored[worker[w].docIndex + 1] = @ + 1]
  /\ UNCHANGED << corpusVars, pc, queryTerms, limit, numWorkers, docChan,
                  docChanClosed, resultsChanClosed, nextDoc, wg, results >>

\* mutant: the worker returns without wg.Done()
WorkerExit_noDone(w) ==
  /\ worker[w].pc = "receive"
  /\ docChan = <<>>
  /\ docChanClosed
  /\ worker' = [worker EXCEPT ![w].pc = "done"]
  /\ UNCHANGED << corpusVars, lastOp, pc, queryTerms, limit, numWorkers, docChan,
                  docChanClosed, resultsChan, resultsChanClosed, nextDoc, wg, results >>

\* worker w: docChan is closed and drained, the range loop ends and the
\* deferred wg.Done() runs
WorkerExit(w) ==
  /\ worker[w].pc = "receive"
  /\ docChan = <<>>
  /\ docChanClosed
  /\ worker' = [worker EXCEPT ![w].pc = "done"]
  /\ wg' = wg - 1
  /\ UNCHANGED << corpusVars, lastOp, pc, queryTerms, limit, numWorkers, docChan,
                  docChanClosed, resultsChan, resultsChanClosed, nextDoc, results >>

\* mutant: close(resultsChan) without wg.Wait()
WaitAndClose_noWait ==
  /\ pc # "idle"
  /\ ~resultsChanClosed
  /\ resultsChanClosed' = TRUE
  /\ UNCHANGED << corpusVars, lastOp, pc, queryTerms, limit, numWorkers, docChan,
                  docChanClosed, resultsChan, nextDoc, worker, wg, results >>

\* the waiting goroutine: wg.Wait() returns, close(resultsChan)
WaitAndClose ==
  /\ pc # "idle"
  /\ ~resultsChanClosed
  /\ wg = 0
  /\ resultsChanClosed' = TRUE
  /\ UNCHANGED << corpusVars, lastOp, pc, queryTerms, limit, numWorkers, docChan,
                  docChanClosed, resultsChan, nextDoc, worker, wg, results >>

\* the calling goroutine: one iteration of `for result := range resultsChan`
Collect ==
  /\ pc = "collect"
  /\ resultsChan # <<>>
  /\ results' = Append(results, Head(resultsChan))
  /\ resultsChan' = Tail(resultsChan)
  /\ UNCHANGED << corpusVars, lastOp, pc, queryTerms, limit, numWorkers, docChan,
                  docChanClosed, resultsChanClosed, nextDoc, worker, wg >>

\* mutant: the loop ends as soon as resultsChan is empty, closed or not
CollectEnd_noWait ==
  /\ pc = "collect"
  /\ resultsChan = <<>>
  /\ pc' = "sort"
  /\ UNCHANGED << corpusVars, lastOp, queryTerms, limit, numWorkers, docChan,
                  docChanClosed, resultsChan, resultsChanClosed, nextDoc, worker,
                  wg, results >>

\* the calling goroutine: resultsChan is closed and drained, the loop ends
CollectEnd ==
  /\ pc = "collect"
  /\ resultsChan = <<>>
  /\ resultsChanClosed
  /\ pc' = "sort"
  /\ UNCHANGED << corpusVars, lastOp, queryTerms, limit, numWorkers, docChan,
                  docChanClosed, resultsChan, resultsChanClosed, nextDoc, worker,
                  wg, results >>

\* the calling goroutine: sort, apply the limit, return
SortAndReturn ==
  /\ pc = "sort"
  /\ \E sorted \in sortSlice(results) :
       /\ results' = applyLimit(sorted, limit)
       /\ lastOp' = [lastOp EXCEPT !.results = applyLimit(sorted, limit),
                                   !.returned = TRUE]
  /\ pc' = "done"
  /\ UNCHANGED << corpusVars, queryTerms, limit, numWorkers, docChan, docChanClosed,
                  resultsChan, resultsChanClosed, nextDoc, worker, wg >>

\* ParseDocument called on a text
ParseDocumentCall ==
  /\ lastOp = NoCall
  /\ \E in \in ParseInputs, walkErr \in WalkErrInputs :
       lastOp' = [ op |-> "ParseDocument", content |-> in.content, doc |-> in.doc,
                   walkErr |-> walkErr,
                   fields |-> ParseDocument(in.content, in.doc, walkErr),
                   returned |-> TRUE ]
  /\ UNCHANGED <<corpusVars, parVars>>

\* DefaultTokenizer.Tokenize called on a text
TokenizeCall ==
  /\ lastOp = NoCall
  /\ \E text \in TokenizeInputs :
       lastOp' = [ op |-> "Tokenize", text |-> text, tokens |-> Tokenize(text),
                   returned |-> TRUE ]
  /\ UNCHANGED <<corpusVars, parVars>>

\* the caller has the result of its call and goes on
Return ==
  /\ lastOp # NoCall
  /\ lastOp.returned
  /\ lastOp' = NoCall
  /\ ParReset
  /\ UNCHANGED corpusVars

Init == InitWith(OptionInputs)

Next ==
  \/ AddDocumentCall(DocInputs, MaxDocs)
  \/ ScoreCall
  \/ Return

Spec == Init /\ [][Next]_vars

NextPar ==
  \/ AddDocumentCall(ParDocInputs, MaxParDocs)
  \/ ScoreCall
  \/ SearchCall
  \/ SearchParallelCall(ParQueryInputs, ParLimitInputs)
  \/ DistributorSend
  \/ DistributorClose
  \/ \E w \in DOMAIN worker : WorkerReceive(w)
  \/ \E w \in DOMAIN worker : WorkerScore(w)
  \/ \E w \in DOMAIN worker : WorkerExit(w)
  \/ WaitAndClose
  \/ Collect
  \/ CollectEnd
  \/ SortAndReturn
  \/ Return

InitPar == InitWith(ParOptionInputs)

SpecPar == InitPar /\ [][NextPar]_vars

\* a step of one of the goroutines of a searchParallel call
GoroutineStep ==
  \/ DistributorSend
  \/ DistributorClose
  \/ \E w \in DOMAIN worker : WorkerReceive(w)
  \/ \E w \in DOMAIN worker : WorkerScore(w)
  \/ \E w \in DOMAIN worker : WorkerExit(w)
  \/ WaitAndClose
  \/ Collect
  \/ CollectEnd
  \/ SortAndReturn

NextLive ==
  \/ AddDocumentCall(LiveDocInputs, MaxLiveDocs)
  \/ SearchParallelCall(LiveQueryInputs, LiveLimitInputs)
  \/ GoroutineStep
  \/ Return

\* the scheduler runs some goroutine that can take a step
SpecLive == InitPar /\ [][NextLive]_vars /\ WF_vars(GoroutineStep)

NextParse ==
  \/ ParseDocumentCall
  \/ Return

SpecParse == InitPar /\ [][NextParse]_vars

NextTokenize ==
  \/ TokenizeCall
  \/ Return

SpecTokenize == InitPar /\ [][NextTokenize]_vars

(***************************************************************************)
(* Definitions the properties are stated with.                             *)
(***************************************************************************)
TermInputs == {"cat", "dog"}

InRange(docIndex) == docIndex \in 0 .. Len(documents) - 1

\* the tokens of field `field` of the stored document docIndex
FieldTokens(docIndex, field) ==
  Tokenize(MapGet(documents[docIndex + 1].Fields, field, <<>>))

\* how often term occurs in field `field` of the stored document docIndex
Occurrences(docIndex, field, term) ==
  LET tokens == FieldTokens(docIndex, field)
  IN Cardinality({k \in DOMAIN tokens : tokens[k] = term})

\* the configured fields for which the stored document docIndex has a text
FieldsOf(docIndex) == DOMAIN fieldWeights \cap DOMAIN documents[docIndex + 1].Fields

\* the stored documents in which term occurs in some configured field
DocsWith(term) ==
  { i \in 0 .. Len(documents) - 1 :
      \E field \in FieldsOf(i) : Occurrences(i, field, term) > 0 }

\* a corpus made with NewCorpus(opts) to which docs are added in order
RECURSIVE BuildCorpus(_, _)
BuildCorpus(opts, docs) ==
  IF docs = <<>> THEN NewCorpus(opts)
  ELSE AddDocument(BuildCorpus(opts, SubSeq(docs, 1, Len(docs) - 1)), docs[Len(docs)])

\* the options that give the configuration of the corpus
OwnOptions ==
  << WithTokenizer(tokenizer), WithFieldWeights(fieldWeights),
     WithBM25Params(params), WithFieldParams(fieldParams) >>

ScoreReturned == lastOp.op = "Score"
QueryTokens == TokenizeWith(Corpus, lastOp.query)

\* the (document index, score) pairs of a result list
Pairs(rs) == {<<rs[k].Index, rs[k].Score>> : k \in DOMAIN rs}

\* the scores of a result list, in its order
Scores(rs) == [k \in DOMAIN rs |-> rs[k].Score]

\* the stored documents with a strictly positive score for the query
PositiveDocs(query) ==
  {i \in 0 .. Len(documents) - 1 : Score(Corpus, query, i) > 0}

NonIncreasing(rs) == \A k \in 1 .. Len(rs) - 1 : rs[k].Score >= rs[k + 1].Score

\* a searchParallel call, a Search call has returned
ParallelReturned == lastOp.op = "searchParallel" /\ lastOp.returned
SearchReturned == lastOp.op = "Search" /\ lastOp.returned
AnySearchReturned == ParallelReturned \/ SearchReturned

\* what searchSequential can return for the arguments of the last call
SequentialOutcomes == searchSequential(Corpus, lastOp.queryTerms, lastOp.limit)

----------------------------------------------------------------------------
\* C1 as claimed: for the same corpus, query and limit, searchSequential and
\* searchParallel return identical sets of (document index, score) pairs, for
\* every worker count and every interleaving of the workers.
C1_SamePairsAsSequential ==
  ParallelReturned =>
    \A seq \in SequentialOutcomes : Pairs(lastOp.results) = Pairs(seq)

\* C1 as amended: searchParallel returns the same scores in the same order as
\* searchSequential, and what it returns is one of the lists searchSequential
\* can return given that sort.Slice may order equal scores either way; the
\* sets of (document index, score) pairs are identical when limit <= 0, and
\* with a positive limit they can differ in which of the documents of equal
\* score at the cut are kept.
C1_SameScoresAsSequential ==
  ParallelReturned =>
    /\ lastOp.results \in SequentialOutcomes
    /\ \A seq \in SequentialOutcomes :
         /\ Scores(lastOp.results) = Scores(seq)
         /\ lastOp.limit <= 0 => Pairs(lastOp.results) = Pairs(seq)

C1_Witness ==
  /\ ParallelReturned
  /\ numWorkers = 2
  /\ lastOp.limit = 1
  /\ Len(results) = 1
  /\ \E seq \in SequentialOutcomes :
       Pairs(seq) # Pairs(lastOp.results) /\ Scores(seq) = Scores(lastOp.results)

----------------------------------------------------------------------------
\* C2: Search with limit <= 0 returns exactly the documents whose score is
\* strictly positive, each once, in an order in which scores do not increase,
\* in the sequential and in the concurrent strategy; a query that tokenizes to
\* nothing returns the empty list.
C2_AllPositiveDocumentsInOrder ==
  /\ AnySearchReturned /\ lastOp.limit <= 0 =>
       /\ {lastOp.results[k].Index : k \in DOMAIN lastOp.results}
            = PositiveDocs(lastOp.query)
       /\ Len(lastOp.results) = Cardinality(PositiveDocs(lastOp.query))
       /\ NonIncreasing(lastOp.results)
  /\ SearchReturned /\ Tokenize(lastOp.query) = <<>> => lastOp.results = <<>>

C2_Witness ==
  /\ ParallelReturned
  /\ lastOp.limit <= 0
  /\ Len(lastOp.results) = 2
  /\ lastOp.results[1].Score > lastOp.results[2].Score
  /\ lastOp.results[1].Index > lastOp.results[2].Index

C2_WitnessSequential ==
  /\ SearchReturned
  /\ lastOp.limit < 0
  /\ Len(lastOp.results) = 2
  /\ lastOp.results[1].Score > lastOp.results[2].Score
  /\ lastOp.results[1].Index > lastOp.results[2].Index

C2_WitnessEmptyQuery ==
  /\ SearchReturned
  /\ lastOp.query # <<>>
  /\ Tokenize(lastOp.query) = <<>>
  /\ Len(documents) > 0
  /\ lastOp.results = <<>>

----------------------------------------------------------------------------
\* C3: with limit k > 0, Search returns min(k, P) results, P the number of
\* documents with a strictly positive score, and no omitted document has a
\* score strictly greater than a returned one, in both strategies and for
\* every interleaving of the concurrent one.
C3_LimitKeepsHighest ==
  AnySearchReturned /\ lastOp.limit > 0 =>
    LET returned == {lastOp.results[k].Index : k \in DOMAIN lastOp.results}
    IN /\ Len(lastOp.results)
            = Min(lastOp.limit, Cardinality(PositiveDocs(lastOp.query)))
       /\ \A i \in PositiveDocs(lastOp.query) \ returned :
            \A k \in DOMAIN lastOp.results :
              Score(Corpus, lastOp.query, i) <= lastOp.results[k].Score

C3_Witness ==
  /\ ParallelReturned
  /\ numWorkers = 2
  /\ lastOp.limit = 1
  /\ Len(lastOp.results) = 1
  /\ \E i \in PositiveDocs(lastOp.query) :
       /\ i < lastOp.results[1].Index
       /\ Score(Corpus, lastOp.query, i) < lastOp.results[1].Score

C3_WitnessSequential ==
  /\ SearchReturned
  /\ lastOp.limit = 1
  /\ Len(lastOp.results) = 1
  /\ \E i \in PositiveDocs(lastOp.query) :
       /\ i < lastOp.results[1].Index
       /\ Score(Corpus, lastOp.query, i) < lastOp.results[1].Score

----------------------------------------------------------------------------
\* C4: Score(query, i) is 0 whenever the query tokenizes to no term or i is
\* outside [0, documentCount), in every state of the corpus, the empty corpus
\* included; the call returns (a Score call is possible with every input).
C4_ScoreZeroOnEmptyQueryOrBadIndex ==
  /\ ScoreReturned /\ (QueryTokens = <<>> \/ ~InRange(lastOp.docIndex))
       => lastOp.score = 0
  /\ lastOp = NoCall => ENABLED ScoreCall

C4_Witness ==
  /\ ScoreReturned
  /\ lastOp.query # <<>>
  /\ QueryTokens = <<>>
  /\ InRange(lastOp.docIndex)
  /\ lastOp.score = 0

C4_WitnessBadIndex ==
  /\ ScoreReturned
  /\ QueryTokens # <<>>
  /\ lastOp.docIndex = Len(documents)
  /\ DocsWith(QueryTokens[1]) # {}
  /\ lastOp.score = 0

\* how often term occurs in the token sequence terms
CountIn(terms, term) == Cardinality({k \in DOMAIN terms : terms[k] = term})

RECURSIVE Distinct(_)
\* terms with every repetition of a term removed
Distinct(terms) ==
  IF terms = <<>> THEN <<>>
  ELSE LET front == SubSeq(terms, 1, Len(terms) - 1)
           last == terms[Len(terms)]
       IN IF last \in Range(front) THEN Distinct(front)
          ELSE Append(Distinct(front), last)

----------------------------------------------------------------------------
\* C5 as claimed: a query in which a term is repeated gets the same score,
\* for every document, as the query with the repetition removed.
C5_RepeatedTermScoredOnce ==
  ScoreReturned =>
    lastOp.score = scoreWithTokens(Corpus, Distinct(QueryTokens), lastOp.docIndex)

\* C5 as amended: Score adds one term score for every occurrence of a term in
\* the query: a term that the query holds k times adds k times its term score.
C5_ScoreSumsEveryOccurrence ==
  ScoreReturned /\ InRange(lastOp.docIndex) =>
    lastOp.score =
      SumOver([t \in Range(QueryTokens) |->
                 CountIn(QueryTokens, t) * termScoreOf(Corpus, t, lastOp.docIndex)],
              Range(QueryTokens))

C5_Witness ==
  /\ ScoreReturned
  /\ InRange(lastOp.docIndex)
  /\ \E t \in Range(QueryTokens) : CountIn(QueryTokens, t) = 2
  /\ lastOp.score > 0
  /\ lastOp.score = 2 * scoreWithTokens(Corpus, Distinct(QueryTokens), lastOp.docIndex)

----------------------------------------------------------------------------
\* C6: the document frequency Score uses for a term is the number of
\* documents in which at least one configured field holds the term, a
\* document that holds it in several fields counting once, and the idf of a
\* term score comes from this count and the number of documents.
C6_CombinedDocFreqCountsDocumentsOnce ==
  /\ lastOp.op = "AddDocument" =>
       \A term \in TermInputs :
         combinedDocFreq(Corpus, term) = Cardinality(DocsWith(term))
  /\ ScoreReturned /\ InRange(lastOp.docIndex) /\ Len(QueryTokens) = 1 =>
       LET term == QueryTokens[1]
           weightedTF == weightedTFOf(Corpus, term, lastOp.docIndex)
       IN lastOp.score =
            IF DocsWith(term) # {} /\ weightedTF > 0
            THEN FMul(idfOf(Len(documents), Cardinality(DocsWith(term))),
                      normTFOf(Corpus, weightedTF))
            ELSE 0

C6_Witness ==
  /\ ScoreReturned
  /\ InRange(lastOp.docIndex)
  /\ Len(QueryTokens) = 1
  /\ Cardinality({field \in DOMAIN fieldWeights :
                    Occurrences(lastOp.docIndex, field, QueryTokens[1]) > 0}) = 2
  /\ lastOp.score > 0

----------------------------------------------------------------------------
\* C7: Score is never negative, and a query term that occurs in more than
\* half of the documents adds exactly 0.
C7_ScoreNonNegative ==
  ScoreReturned =>
    /\ lastOp.score >= 0
    /\ Len(QueryTokens) = 1
         /\ 2 * Cardinality(DocsWith(QueryTokens[1])) > Len(documents)
         => lastOp.score = 0

C7_Witness ==
  /\ ScoreReturned
  /\ Len(QueryTokens) = 1
  /\ lastOp.docIndex \in DocsWith(QueryTokens[1])
  /\ 2 * Cardinality(DocsWith(QueryTokens[1])) > Len(documents)
  /\ rawIdf(Len(documents), Cardinality(DocsWith(QueryTokens[1]))) < 0
  /\ lastOp.score = 0

\* the fields whose weight is varied (h1 and body hold the texts of the
\* documents, code holds none) and the weights tried in place of theirs
FieldInputs == {FieldH1, FieldBody, FieldCode}
WeightInputs == {-2000, 7000}

\* the corpus with weight w for field in place of its weight
Reweighted(field, w) ==
  [ Corpus EXCEPT !.fieldWeights[field] = w, !.fieldScorers[field].weight = w ]

\* Reweighted(field, w) is the corpus that NewCorpus and AddDocument build
\* from the same documents when the weight of field is w; stated where the
\* corpus changes
ReweightedIsBuilt ==
  lastOp.op = "AddDocument" =>
    \A field \in FieldInputs, w \in WeightInputs :
      Reweighted(field, w) =
        BuildCorpus(
          << WithTokenizer(tokenizer),
             WithFieldWeights([fieldWeights EXCEPT ![field] = w]),
             WithBM25Params(params), WithFieldParams(fieldParams) >>,
          documents)

\* a Score call with a query of one term on a stored document has returned
OneTermScoreReturned ==
  ScoreReturned /\ Len(QueryTokens) = 1 /\ InRange(lastOp.docIndex)

----------------------------------------------------------------------------
\* C8 as claimed: of two corpora built from the same documents that differ
\* only in the weight of one field, the one with the greater weight gives
\* every document a score for a query term that is not smaller, and a
\* strictly greater one for every document that holds the term in that field.
C8_GreaterWeightStrictlyGreaterScore ==
  OneTermScoreReturned =>
    \A field \in FieldInputs, w \in WeightInputs :
      LET other == scoreWithTokens(Reweighted(field, w), QueryTokens, lastOp.docIndex)
          present == Occurrences(lastOp.docIndex, field, QueryTokens[1]) > 0
      IN /\ w > fieldWeights[field] =>
              other >= lastOp.score /\ (present => other > lastOp.score)
         /\ w < fieldWeights[field] =>
              other <= lastOp.score /\ (present => other < lastOp.score)

\* C8 as amended: the corpus with the greater weight gives every document a
\* score that is not smaller, and a strictly greater one for every document
\* that holds the term in that field provided the term occurs in fewer than
\* half of the documents and the weighted term frequency of the document under
\* the greater weight is positive; otherwise the two scores may both be 0.
C8_GreaterWeightNotSmallerScore ==
  /\ ReweightedIsBuilt
  /\ OneTermScoreReturned =>
    \A field \in FieldInputs, w \in WeightInputs :
      LET term == QueryTokens[1]
          changed == Reweighted(field, w)
          other == scoreWithTokens(changed, QueryTokens, lastOp.docIndex)
          present == Occurrences(lastOp.docIndex, field, term) > 0
          rare == 2 * Cardinality(DocsWith(term)) < Len(documents)
      IN /\ w > fieldWeights[field] =>
              /\ other >= lastOp.score
              /\ present /\ rare /\ weightedTFOf(changed, term, lastOp.docIndex) > 0
                   => other > lastOp.score
         /\ w < fieldWeights[field] =>
              /\ other <= lastOp.score
              /\ present /\ rare /\ weightedTFOf(Corpus, term, lastOp.docIndex) > 0
                   => other < lastOp.score

C8_Witness ==
  /\ OneTermScoreReturned
  /\ lastOp.score > 0
  /\ \E field \in FieldInputs, w \in WeightInputs :
       /\ w > fieldWeights[field]
       /\ Occurrences(lastOp.docIndex, field, QueryTokens[1]) > 0
       /\ scoreWithTokens(Reweighted(field, w), QueryTokens, lastOp.docIndex)
            > lastOp.score

----------------------------------------------------------------------------
\* C9: if a query term occurs equally often in document X only in field A and
\* in document Y only in field B, with weight(A) > weight(B) > 0, and the term
\* occurs in fewer than half of the documents, the score of the term is
\* strictly greater for X than for Y.
OnlyIn(docIndex, field, term) ==
  /\ field \in FieldsOf(docIndex)
  /\ Occurrences(docIndex, field, term) > 0
  /\ \A other \in FieldsOf(docIndex) \ {field} : Occurrences(docIndex, other, term) = 0

C9_HeavierFieldScoresHigher ==
  OneTermScoreReturned =>
    LET term == QueryTokens[1]
        X == lastOp.docIndex
    IN 2 * Cardinality(DocsWith(term)) < Len(documents) =>
         \A A \in FieldsOf(X) :
           OnlyIn(X, A, term) =>
             \A Y \in 0 .. Len(documents) - 1 :
               \A B \in FieldsOf(Y) :
                 /\ OnlyIn(Y, B, term)
                 /\ Occurrences(X, A, term) = Occurrences(Y, B, term)
                 /\ fieldWeights[A] > fieldWeights[B]
                 /\ fieldWeights[B] > 0
                 => lastOp.score > scoreWithTokens(Corpus, QueryTokens, Y)

C9_Witness ==
  /\ OneTermScoreReturned
  /\ LET term == QueryTokens[1]
     IN /\ OnlyIn(lastOp.docIndex, FieldH1, term)
        /\ 2 * Cardinality(DocsWith(term)) < Len(documents)
        /\ \E Y \in 0 .. Len(documents) - 1 :
             /\ OnlyIn(Y, FieldBody, term)
             /\ Occurrences(Y, FieldBody, term) = Occurrences(lastOp.docIndex, FieldH1, term)
             /\ scoreWithTokens(Corpus, QueryTokens, Y) > 0
             /\ lastOp.score > scoreWithTokens(Corpus, QueryTokens, Y)

----------------------------------------------------------------------------
\* the BM25 parameters tried in place of those of the corpus: global k1/b and
\* per-field overrides
ParamInputs ==
  { [params |-> [K1 |-> 2000, B |-> 0], fieldParams |-> (FieldBody :> ReadmeParams)] }

\* the corpus built from the same documents with the parameters alt; stated
\* where the corpus changes, and used with lastOp.op = "AddDocument"
Reparametrized(alt) ==
  BuildCorpus(
    << WithTokenizer(tokenizer), WithFieldWeights(fieldWeights),
       WithBM25Params(alt.params), WithFieldParams(alt.fieldParams) >>,
    documents)

----------------------------------------------------------------------------
\* C11: after any sequence of AddDocument calls every configured field has as
\* many term-count tables, as many recorded lengths and a total document count
\* equal to the number of documents of the corpus, and a document without a
\* configured field is recorded in that field with an empty table and length 0.
C11_FieldListsMatchDocumentCount ==
  \A field \in DOMAIN fieldScorers :
    LET f == fieldScorers[field]
    IN /\ Len(f.termFrequencies) = Len(documents)
       /\ Len(f.docLengths) = Len(documents)
       /\ f.totalDocs = Len(documents)
       /\ \A i \in DOMAIN documents :
            field \notin DOMAIN documents[i].Fields =>
              f.termFrequencies[i] = EmptyMap /\ f.docLengths[i] = 0

C11_Witness ==
  /\ lastOp.op = "AddDocument"
  /\ Len(documents) = 3
  /\ \E field \in DOMAIN fieldScorers :
       /\ field \notin DOMAIN documents[3].Fields
       /\ field \in DOMAIN documents[1].Fields
       /\ fieldScorers[field].termFrequencies[1] # EmptyMap
       /\ fieldScorers[field].totalDocs = 3

----------------------------------------------------------------------------
----------------------------------------------------------------------------
\* C13: the document stored at position i of the corpus has ID i, counted from
\* 0, whatever ID the caller put in the Document it passed to AddDocument.
C13_StoredIDIsPosition ==
  \A i \in DOMAIN documents : documents[i].ID = i - 1

C13_Witness ==
  /\ lastOp.op = "AddDocument"
  /\ Len(documents) = 2
  /\ documents[2].ID = 1
  /\ 1 \notin CallerIDs

----------------------------------------------------------------------------
\* C14: AddDocument only appends: no step changes the stored Document, the
\* term-count tables or the recorded lengths of a document inserted earlier,
\* and the number of documents never decreases.
C14_AddDocumentOnlyAppends ==
  [][ /\ Len(documents') >= Len(documents)
      /\ \A j \in DOMAIN documents :
           /\ documents'[j] = documents[j]
           /\ \A field \in DOMAIN fieldScorers :
                /\ field \in DOMAIN fieldScorers'
                /\ fieldScorers'[field].termFrequencies[j]
                     = fieldScorers[field].termFrequencies[j]
                /\ fieldScorers'[field].docLengths[j]
                     = fieldScorers[field].docLengths[j] ]_vars

C14_Witness ==
  /\ lastOp.op = "AddDocument"
  /\ Len(documents) = 3
  /\ documents[1].Fields # documents[3].Fields
  /\ fieldScorers[FieldH1].termFrequencies[1] # fieldScorers[FieldH1].termFrequencies[3]

----------------------------------------------------------------------------
\* a step that is not the AddDocument call itself
ReadStep == ~(lastOp.op = "none" /\ lastOp'.op = "AddDocument")

\* the searchParallel call in progress has left its collection loop
SortStarted == pc \in {"sort", "done"}

----------------------------------------------------------------------------
\* every worker has exited, the channels are empty, the result channel is
\* closed and, where there is a worker, so is the work channel; up to the sort
\* the results collected are those of the positive-scoring documents
WorkersFinishedAllCollected ==
  /\ \A w \in DOMAIN worker : worker[w].pc = "done"
  /\ wg = 0
  /\ docChan = <<>>
  /\ numWorkers > 0 => nextDoc = Len(documents) /\ docChanClosed
  /\ resultsChan = <<>> /\ resultsChanClosed
  /\ pc = "sort" =>
       /\ Len(results) = Cardinality(PositiveDocs(lastOp.query))
       /\ {results[k].Index : k \in DOMAIN results} = PositiveDocs(lastOp.query)

\* C16: in the concurrent search, sorting and truncation start only after
\* every worker has scored all it received and exited and every result sent
\* has been collected; nothing is sent once sorting has started, and sorting
\* and truncation happen once per call.
C16_SortAfterWorkersOnce ==
  /\ [](SortStarted => WorkersFinishedAllCollected)
  /\ [][ /\ pc' = "sort" => pc \in {"collect", "sort"}
         /\ pc = "sort" /\ pc' # "sort" => pc' = "done"
         /\ pc = "done" => pc' \in {"done", "idle"}
         /\ SortStarted /\ SortStarted' =>
              resultsChan' = resultsChan /\ (pc = "done" => results' = results) ]_vars

C16_Witness ==
  /\ pc = "sort"
  /\ numWorkers = 2
  /\ Len(results) = 2
  /\ results[1].Score < results[2].Score
  /\ results[1].Index > results[2].Index

----------------------------------------------------------------------------
\* a searchParallel call has been made and has not returned
InFlight == lastOp.op = "searchParallel" /\ ~lastOp.returned

\* C17: under fair scheduling every concurrent search terminates: the
\* distributor hands out every index and closes the work channel, every worker
\* exits, the result channel is closed and the collector returns.
C17_SearchTerminates ==
  InFlight ~>
    /\ ParallelReturned
    /\ \A w \in DOMAIN worker : worker[w].pc = "done"
    /\ resultsChanClosed
    /\ numWorkers > 0 => nextDoc = Len(documents) /\ docChanClosed

C17_Witness ==
  /\ ParallelReturned
  /\ numWorkers = 2
  /\ Len(documents) = 3
  /\ Len(lastOp.results) = 1
  /\ nextDoc = 3
  /\ docChanClosed

----------------------------------------------------------------------------
ParseReturned == lastOp.op = "ParseDocument"

\* a sequence of characters
IsText(x) == DOMAIN x = 1 .. Len(x) /\ \A k \in DOMAIN x : Len(x[k]) = 1

RECURSIVE NodesOf(_)
\* the (kind, level) pairs of the nodes of a tree
NodesOf(node) ==
  {<<node.kind, node.level>>}
    \cup UNION {NodesOf(node.children[k]) : k \in DOMAIN node.children}

\* the nodes from which ParseDocument takes text for a field
FeedsField(kindLevel, field) ==
  \/ kindLevel[1] = "Heading" /\ field = getHeaderField(kindLevel[2])
  \/ kindLevel = <<"Emphasis", 2>> /\ field = FieldBold
  \/ kindLevel = <<"Emphasis", 1>> /\ field = FieldItalic
  \/ kindLevel[1] \in {"CodeSpan", "FencedCodeBlock", "CodeBlock"} /\ field = FieldCode
  \/ kindLevel[1] = "Text" /\ field = FieldBody

\* C18: ParseDocument returns a map with every field as a key and a string
\* as each value, the empty string for a field that received no text; when the
\* traversal fails the body field holds the whole input as it is and the
\* other fields are empty.
C18_EveryFieldIsAKey ==
  ParseReturned =>
    /\ DOMAIN lastOp.fields = Field
    /\ \A field \in Field : IsText(lastOp.fields[field])
    /\ lastOp.walkErr =>
         /\ lastOp.fields[FieldBody] = lastOp.content
         /\ \A field \in Field \ {FieldBody} : lastOp.fields[field] = <<>>
    /\ ~lastOp.walkErr =>
         \A field \in Field :
           (\A kl \in NodesOf(lastOp.doc) : ~FeedsField(kl, field))
             => lastOp.fields[field] = <<>>

C18_Witness ==
  /\ ParseReturned
  /\ ~lastOp.walkErr
  /\ lastOp.fields[FieldH1] = Chars("Cat")
  /\ lastOp.fields[FieldH3] = <<>>
  /\ lastOp.fields[FieldH2] = <<>>
  /\ lastOp.fields[FieldBody] = Chars("dog end")

C18_WitnessFailure ==
  /\ ParseReturned
  /\ lastOp.walkErr
  /\ lastOp.content = RichSource
  /\ lastOp.fields[FieldBody] = RichSource
  /\ lastOp.fields[FieldH1] = <<>>

----------------------------------------------------------------------------
\* the text has one block, of the kind given
OnlyBlock(kind) ==
  /\ ParseReturned
  /\ ~lastOp.walkErr
  /\ Len(lastOp.doc.children) = 1
  /\ lastOp.doc.children[1].kind = kind

\* the content lines of the only block, without their line ends
BlockLines ==
  LET ls == lastOp.doc.children[1].lines
  IN [k \in DOMAIN ls |-> SubSeq(ls[k], 1, Len(ls[k]) - 1)]

\* C19: the content lines of an indented code block are appended to the code
\* field as those of a fenced block are: a text whose only content is an
\* indented code block with lines that are not blank has a code field that is
\* not empty, equal to that of the fenced block with the same lines.
C19_IndentedCodeBlockInCodeField ==
  OnlyBlock("CodeBlock") =>
    /\ lastOp.fields[FieldCode] # <<>>
    /\ lastOp.fields[FieldCode]
         = extractCodeBlockText(FencedCodeBlock(<<>>, BlockLines), FALSE)

\* what the code does with an indented code block: none of its lines reaches
\* any field
C19_IndentedCodeBlockLost ==
  OnlyBlock("CodeBlock") => \A field \in Field : lastOp.fields[field] = <<>>

C19_Witness ==
  /\ OnlyBlock("CodeBlock")
  /\ BlockLines = <<Chars("x = 1"), Chars("fmt.Println()")>>
  /\ lastOp.fields[FieldCode] = <<>>

----------------------------------------------------------------------------
RECURSIVE DropLeadingBlank(_)
DropLeadingBlank(ls) ==
  IF ls # <<>> /\ IsBlank(Head(ls)) THEN DropLeadingBlank(Tail(ls)) ELSE ls

RECURSIVE DropTrailingBlank(_)
DropTrailingBlank(ls) ==
  IF ls # <<>> /\ IsBlank(ls[Len(ls)])
  THEN DropTrailingBlank(SubSeq(ls, 1, Len(ls) - 1)) ELSE ls

\* the first content line is taken for a language identifier
LooksLikeLanguageTag(ls) ==
  /\ Len(ls) > 1
  /\ Len(TrimSpace(ls[1])) < 12
  /\ " " \notin Range(TrimSpace(ls[1]))

C20_WitnessOneLine ==
  /\ OnlyBlock("FencedCodeBlock")
  /\ BlockLines = <<Chars("go")>>
  /\ lastOp.fields[FieldCode] = Chars("go")

C20_WitnessLongFirstLine ==
  /\ OnlyBlock("FencedCodeBlock")
  /\ BlockLines = <<Chars("fmt.Println()"), Chars("go")>>
  /\ lastOp.fields[FieldCode] = Chars("fmt.Println()\ngo")

----------------------------------------------------------------------------
TokenizeReturned == lastOp.op = "Tokenize"

\* the characters of the class [a-z0-9_-]
TermChars == Range(LowerChars) \cup DigitChars \cup {"_", "-"}

\* the maximal runs of characters of the class in text, as (first, last)
MaximalRuns(text) ==
  { r \in (DOMAIN text) \X (DOMAIN text) :
      /\ r[1] <= r[2]
      /\ \A k \in r[1] .. r[2] : text[k] \in TermChars
      /\ r[1] = 1 \/ text[r[1] - 1] \notin TermChars
      /\ r[2] = Len(text) \/ text[r[2] + 1] \notin TermChars }

CollectedResults == IF pc = "done" THEN results ELSE results \o resultsChan

\* C22: in searchParallel over n documents the number of workers is
\* min(NumCPU, n); a document index is received from docChan by at most one
\* worker and scored at most once, only after it was sent, and when the
\* collection loop has ended every index 0..n-1 was received once and scored
\* once; the collected results hold at most one entry per document and only
\* entries of indices that were scored.
C22_EachDocumentScoredOnce ==
  lastOp.op = "searchParallel" =>
    LET n == Len(documents)
    IN /\ numWorkers = Min(lastOp.numCPU, n)
       /\ DOMAIN worker = 1 .. numWorkers
       /\ DOMAIN lastOp.handed = 1 .. n
       /\ DOMAIN lastOp.scored = 1 .. n
       /\ \A i \in 0 .. n - 1 :
            /\ lastOp.handed[i + 1] <= 1
            /\ lastOp.scored[i + 1] <= lastOp.handed[i + 1]
            /\ lastOp.handed[i + 1] = 1 => i < nextDoc
            /\ SortStarted => lastOp.handed[i + 1] = 1 /\ lastOp.scored[i + 1] = 1
       /\ \A k \in DOMAIN CollectedResults :
            /\ CollectedResults[k].Index \in 0 .. n - 1
            /\ lastOp.scored[CollectedResults[k].Index + 1] = 1
            /\ \A j \in DOMAIN CollectedResults :
                 CollectedResults[j].Index = CollectedResults[k].Index => j = k

C22_Witness ==
  /\ lastOp.op = "searchParallel"
  /\ pc = "sort"
  /\ Len(documents) = 3
  /\ lastOp.numCPU = 2
  /\ numWorkers = 2
  /\ lastOp.handed = <<1, 1, 1>>
  /\ lastOp.scored = <<1, 1, 1>>
  /\ Len(results) >= 1

----------------------------------------------------------------------------
\* the field a node feeds with the text below it, "" for a node that feeds
\* none
FieldOfNode(node) ==
  CASE node.kind = "Heading" -> getHeaderField(node.level)
    [] node.kind \in {"CodeSpan", "FencedCodeBlock", "CodeBlock"} -> FieldCode
    [] node.kind = "Emphasis" /\ node.level = 2 -> FieldBold
    [] node.kind = "Emphasis" /\ node.level = 1 -> FieldItalic
    [] OTHER -> ""

RECURSIVE LeafOwners(_, _)
\* the text leaves of a tree, each with the field of its outermost ancestor
\* that feeds a field, the body field for a leaf with no such ancestor
LeafOwners(node, owner) ==
  IF node.kind = "Text"
  THEN {[ text |-> TrimSpace(node.value),
          field |-> IF owner = "" THEN FieldBody ELSE owner ]}
  ELSE LET below == IF owner = "" THEN FieldOfNode(node) ELSE owner
       IN UNION {LeafOwners(node.children[k], below) : k \in DOMAIN node.children}

\* how many times sub occurs in text
OccurrencesIn(sub, text) ==
  Cardinality({k \in 1 .. Len(text) - Len(sub) + 1 :
                 SubSeq(text, k, k + Len(sub) - 1) = sub})

\* C23: ParseDocument puts the text of every text leaf in one field, once:
\* the field of its outermost heading, code span or emphasis ancestor, the
\* body field for a leaf with no such ancestor; it is in no other field, so
\* italic nested in bold is in the bold field alone.  No content line of a
\* code block is in a field other than the code field.
C23_LeafInOutermostFieldOnly ==
  ParseReturned /\ ~lastOp.walkErr =>
    /\ \A leaf \in LeafOwners(lastOp.doc, "") :
         leaf.text # <<>> =>
           \A field \in Field :
             OccurrencesIn(leaf.text, lastOp.fields[field])
               = IF field = leaf.field THEN 1 ELSE 0
    /\ \A b \in DOMAIN lastOp.doc.children :
         \A l \in DOMAIN lastOp.doc.children[b].lines :
           LET line == TrimSpace(lastOp.doc.children[b].lines[l])
           IN line # <<>> =>
                \A field \in Field \ {FieldCode} :
                  OccurrencesIn(line, lastOp.fields[field]) = 0

C23_Witness ==
  /\ ParseReturned
  /\ ~lastOp.walkErr
  /\ lastOp.doc = NestedDocument
  /\ lastOp.fields[FieldBold] = Chars("bold  deep   code")
  /\ lastOp.fields[FieldItalic] = <<>>
  /\ lastOp.fields[FieldCode] = Chars("span")
  /\ lastOp.fields[FieldBody] = Chars("plain tail")
  /\ lastOp.fields[FieldH1] = Chars("Top  ital")

----------------------------------------------------------------------------
\* C24: in every field index, after each addDocument, the document frequency
\* recorded for a term is the number of documents whose term-count table has
\* a count of at least 1 for it, however often the term occurs in one
\* document, and the recorded length of a document is the sum of the counts
\* of its table.
C24_DocFrequencyCountsDocuments ==
  lastOp.op = "AddDocument" \/ documents = <<>> =>
    \A field \in DOMAIN fieldScorers :
      LET f == fieldScorers[field]
          tables == f.termFrequencies
          terms == DOMAIN f.docFrequencies
                     \cup UNION {DOMAIN tables[i] : i \in DOMAIN tables}
      IN /\ DOMAIN f.docLengths = DOMAIN tables
         /\ \A t \in terms :
              MapGet(f.docFrequencies, t, 0)
                = Cardinality({i \in DOMAIN tables : MapGet(tables[i], t, 0) >= 1})
         /\ \A i \in DOMAIN tables :
              f.docLengths[i] = SumOver(tables[i], DOMAIN tables[i])

C24_Witness ==
  /\ lastOp.op = "AddDocument"
  /\ Len(documents) = 3
  /\ LET f == fieldScorers[FieldBody]
     IN /\ MapGet(f.docFrequencies, "dog", 0) = 2
        /\ MapGet(f.termFrequencies[1], "dog", 0) = 2
        /\ MapGet(f.termFrequencies[3], "dog", 0) = 2
        /\ f.docLengths = <<2, 0, 2>>

----------------------------------------------------------------------------
\* term occurs in a configured field of the stored document docIndex and in
\* fewer than half of the stored documents
RareTermOf(term, docIndex) ==
  /\ docIndex \in DocsWith(term)
  /\ 2 * Cardinality(DocsWith(term)) < Len(documents)

\* some term of the sequence is such a term
HasRareTerm(terms, docIndex) ==
  \E k \in DOMAIN terms : RareTermOf(terms[k], docIndex)

AllWeightsPositive == \A field \in DOMAIN fieldWeights : fieldWeights[field] > 0

\* C25: with every field weight positive, Score(query, i) on a stored
\* document is positive exactly when some term of the query occurs in a
\* configured field of document i and in fewer than half of the documents;
\* Search returns the documents for which that holds, so a search for one
\* term that half or more of the documents hold returns nothing.
C25_PositiveIffRareTermPresent ==
  AllWeightsPositive =>
    /\ ScoreReturned /\ InRange(lastOp.docIndex) =>
         (lastOp.score > 0 <=> HasRareTerm(QueryTokens, lastOp.docIndex))
    /\ SearchReturned /\ lastOp.limit <= 0 =>
         {lastOp.results[k].Index : k \in DOMAIN lastOp.results}
           = {i \in 0 .. Len(documents) - 1 : HasRareTerm(lastOp.queryTerms, i)}
    /\ SearchReturned /\ Len(lastOp.queryTerms) = 1
         /\ 2 * Cardinality(DocsWith(lastOp.queryTerms[1])) >= Len(documents)
         => lastOp.results = <<>>

\* Score is 0 for a term that one of two documents holds
C25_Witness ==
  /\ AllWeightsPositive
  /\ ScoreReturned
  /\ Len(documents) = 2
  /\ QueryTokens = <<"dog">>
  /\ DocsWith("dog") = {lastOp.docIndex}
  /\ lastOp.score = 0

\* a search for a term that one of three documents holds returns that document
C25_WitnessSearch ==
  /\ SearchReturned
  /\ Len(documents) = 3
  /\ lastOp.queryTerms = <<"cat", "dog">>
  /\ Cardinality(DocsWith("cat")) = 2
  /\ Cardinality(DocsWith("dog")) = 1
  /\ Len(lastOp.results) = 1
  /\ lastOp.results[1].Index \in DocsWith("dog")

----------------------------------------------------------------------------
\* C26: every result that Search returns, from the sequential loop or from
\* the workers, has as Index the position of its document in the corpus,
\* which is also the ID of the document, holds the document stored at that
\* position, and has as Score the value of Score(query, Index) on the corpus
\* as it is.
C26_ResultMatchesStoredDocument ==
  AnySearchReturned =>
    \A k \in DOMAIN lastOp.results :
      LET r == lastOp.results[k]
      IN /\ InRange(r.Index)
         /\ r.Document = documents[r.Index + 1]
         /\ r.Document.ID = r.Index
         /\ r.Score = Score(Corpus, lastOp.query, r.Index)

C26_Witness ==
  /\ ParallelReturned
  /\ Len(documents) = 3
  /\ Len(lastOp.results) = 1
  /\ lastOp.results[1].Index = 2
  /\ lastOp.results[1].Document.ID = 2
  /\ lastOp.results[1].Score > 0

C26_WitnessSequential ==
  /\ SearchReturned
  /\ Len(documents) = 3
  /\ Len(lastOp.results) = 1
  /\ lastOp.results[1].Index = 1
  /\ lastOp.results[1].Document.ID = 1
  /\ lastOp.results[1].Score > 0

====
